---- MODULE Spec2Model ----
(***************************************************************************)
(* Model of tadn/scripts/precompute_appearance_vectors.py: the driver loop *)
(* of main (fetch a sample, crop one patch per detection, extract one      *)
(* feature batch per frame, record it, rotate the shard file), its         *)
(* try/except/finally, and the patch cropping arithmetic.                  *)
(*                                                                         *)
(* Box coordinates are floats in the program.  They are modelled in units  *)
(* of one half, so that int() is a real truncation and `d > 0` differs     *)
(* from `int(d) > 0`: the integer v stands for the float v/2.              *)
(*                                                                         *)
(* An exception is of one of two classes: Exception, which line 187        *)
(* catches, and KeyboardInterrupt, which it does not and which can arrive  *)
(* between any two statements.                                             *)
(***************************************************************************)
EXTENDS Integers, Sequences, FiniteSets, TLC

VARIABLES
    args,               \* the parsed command line
    base_folder,        \* local `base_folder` (a path)
    pc,                 \* position of main in its loop / handlers
    dset,               \* the samples yielded and unpacked (lines 142-150) so far
    key,                \* local `key`
    patch_list,         \* local `patch_list`
    feats_tensor,       \* local `feats_tensor`
    feats_dict,         \* local `feats_dict`: key -> entry of the open shard
    feats_vocabulary,   \* local `feats_vocabulary`: key -> shard basename
    current_file_idx,   \* local `current_file_idx`
    current_file,       \* local `current_file` (a path)
    disk,               \* the output directory: path -> file content
    writes,             \* paths written successfully, in order
    exc,                \* the exception that ended the loop, if any
    pending,            \* the exception on its way out of main, if any
    printed,            \* what line 190 printed ("Current key: ...")
    calls,              \* per frame: <<extractor calls, model invocations>>
    run,                \* record calls since the buffer was last empty
    write_failed,       \* some file write of the run raised
    box, shape, patch, cpc  \* the patch extractor on its own (CropSpec)

vars == <<args, base_folder, pc, dset, key, patch_list, feats_tensor,
          feats_dict, feats_vocabulary, current_file_idx, current_file, disk,
          writes, exc, pending, printed, calls, run, write_failed,
          box, shape, patch, cpc>>

mainVars == <<args, base_folder, pc, dset, key, patch_list, feats_tensor,
              feats_dict, feats_vocabulary, current_file_idx, current_file,
              disk, writes, exc, pending, printed, calls, run, write_failed>>

cropVars == <<box, shape, patch, cpc>>

\* args.samples_per_file and args.feature_extractor
samples_per_file == args.samples_per_file
feature_extractor == args.feature_extractor

----------------------------------------------------------------------------
(* Bounds of the model *)

MaxFrames == 3      \* samples the dataset iterator yields at most
MaxSPF == 2         \* largest --samples_per_file tried
FrameSide == 3      \* frames are FrameSide x FrameSide pixels
MaxCoord == 4       \* box coordinates range over -MaxCoord..MaxCoord halves

(* Program constants *)

PatchH == 256
PatchW == 128
Channels == 3
ResnetSide == 128
ReidH == 256
ReidW == 128
FeatDim == 512

Max(a, b) == IF a >= b THEN a ELSE b
Min(a, b) == IF a <= b THEN a ELSE b

----------------------------------------------------------------------------
(* Patch extraction, lines 154-167 *)

\* Python's int() of the float v/2: truncation towards zero.
IntOf(v) == IF v >= 0 THEN v \div 2 ELSE -((-v) \div 2)

\* `d[0] > 0` on the float v/2.
Positive(v) == v > 0

RealExtent(origin, extent) ==
    IF Positive(origin) THEN IntOf(extent) ELSE IntOf(origin + extent)

RealMin(origin) == Max(0, IntOf(origin))

ZeroPatch == [kind |-> "zeros", shape |-> <<PatchH, PatchW, Channels>>,
              at |-> <<0, 0>>]

\* Length of numpy's a[start:stop] on an axis of n elements, 0 <= start.
SliceLen(n, start, stop) == Max(0, Min(stop, n) - Min(start, n))

FrameSlice(fshape, ymin, h, xmin, w) ==
    [kind |-> "slice",
     shape |-> <<SliceLen(fshape[1], ymin, ymin + h),
                 SliceLen(fshape[2], xmin, xmin + w), Channels>>,
     at |-> <<ymin, xmin>>]

\* One iteration of the loop over detections: the patch appended for d.
Crop(d, fshape) ==
    LET real_w == RealExtent(d[1], d[3])
        real_h == RealExtent(d[2], d[4])
        real_xmin == RealMin(d[1])
        real_ymin == RealMin(d[2])
    IN  IF real_h <= 1 \/ real_w <= 1
        THEN ZeroPatch
        ELSE FrameSlice(fshape, real_ymin, real_h, real_xmin, real_w)

\* Faulty variant of CropAll: degenerate boxes are skipped, not zero-filled.
RECURSIVE CropAllDropsDegenerate(_, _)
CropAllDropsDegenerate(dets, fshape) ==
    IF dets = <<>> THEN <<>>
    ELSE LET p == Crop(Head(dets), fshape)
         IN  (IF p.kind = "zeros" THEN <<>> ELSE <<p>>)
             \o CropAllDropsDegenerate(Tail(dets), fshape)

\* The whole loop over detections: patch_list after line 167.
RECURSIVE CropAll(_, _)
CropAll(dets, fshape) ==
    IF dets = <<>> THEN <<>>
    ELSE <<Crop(Head(dets), fshape)>> \o CropAll(Tail(dets), fshape)

----------------------------------------------------------------------------
(* Feature extraction, Resnet18Features.__call__ and ReidFeatures.__call__ *)

\* Resize target of the variant's preprocessing.
ResizeShape(fe) ==
    IF fe = "resnet18" THEN <<ResnetSide, ResnetSide>> ELSE <<ReidH, ReidW>>

\* self.T / self.preprocess on one patch.
Transform(fe, p) == [src |-> p, size |-> ResizeShape(fe)]

\* self.model(batch).cpu(): one FeatDim vector per row of the batch.
Model(batch) == [j \in 1..Len(batch) |-> [dim |-> FeatDim, of |-> batch[j]]]

\* __call__(x)
FeatureExtractor(fe, x) ==
    IF Len(x) = 0 THEN <<>>
    ELSE Model([j \in 1..Len(x) |-> Transform(fe, x[j])])

\* Whether __call__(x) runs the underlying model.
InvokesModel(x) == Len(x) # 0

----------------------------------------------------------------------------
(* Keys, paths and dictionaries *)

\* f"{seq}_{frame_id}"
MakeKey(seq, frame_id) == seq \o "_" \o ToString(frame_id)

\* osp.join(folder, name) and osp.basename(path)
Join(folder, name) == <<folder, name>>
Basename(path) == path[2]

\* Lines 118-127: the output folder under args.data_root.
BaseFolder(a) ==
    IF a.dset_type = "detrac"
    THEN Join(a.data_root,
              "appearance_vectors_" \o a.feature_extractor \o "_"
                  \o a.detector \o "_" \o a.dset_mode)
    ELSE Join(a.data_root,
              "appearance_vectors_" \o a.feature_extractor \o "_"
                  \o a.dset_mode)

ShardName(idx) == "ap_vec_" \o ToString(idx) \o ".apv"
ShardFile(folder, idx) == Join(folder, ShardName(idx))
VocFile(folder) == Join(folder, "ap_vectors.voc")


EmptyDict == [x \in {} |-> 0]

\* Faulty variant of DictUpdate: the earlier entries are forgotten.
DictReplace(d, k, v) == [x \in {k} |-> v]

\* dict.update({k: v})
DictUpdate(d, k, v) == [x \in DOMAIN d \cup {k} |-> IF x = k THEN v ELSE d[x]]

\* Faulty variant of VocValue: the first shard's name, whatever the path.
VocValueStale(path) == ShardName(0)

\* The value recorded in the vocabulary, line 176.
VocValue(path) == Basename(path)

\* Faulty variant of RotateDue: rotates one entry late.
RotateDueOffByOne(d, spf) == Cardinality(DOMAIN d) = spf + 1

\* Line 178: len(feats_dict.keys()) == args.samples_per_file
RotateDue(d, spf) == Cardinality(DOMAIN d) = spf

\* Faulty variant of NextIdx: the index is not advanced.
NextIdxStuck(idx) == idx

\* Line 181
NextIdx(idx) == idx + 1

\* A file after a successful write of `data`.
Written(data) == [ok |-> TRUE, data |-> data]

\* A file whose write raised after the file was opened for writing.
Corrupt == [ok |-> FALSE, data |-> EmptyDict]

FileUpdate(d, path, content) ==
    [p \in DOMAIN d \cup {path} |-> IF p = path THEN content ELSE d[p]]

----------------------------------------------------------------------------
(* Inputs *)

Seqs == {"MOT17-02"}
FrameIds == {1, 2, 3}

\* x, y, w, h in halves: a box 1 wide and 1.5 high at (1, 1), which is
\* degenerate, and a 2x2 box at (0.5, 0.5)
BoxThin == <<2, 2, 2, 3>>
BoxGood == <<1, 1, 4, 4>>
DetLists == {<<>>, <<BoxThin, BoxGood>>}

\* The frames a dataset can yield: the first frame of the sequence with or
\* without detections, the later ones with detections.
Samples ==
    {s \in [seq : Seqs, frame_id : FrameIds, detections : DetLists,
            shape : {<<FrameSide, FrameSide>>}] :
        s.frame_id = 1 \/ s.detections # <<>>}

\* 0 stands for every value below 1: the buffer is never empty at line 178.
SPFValues == 0..MaxSPF

\* The command lines tried: one of each dataset type, with different modes,
\* extractors and detectors.
Configs ==
    {[data_root |-> "MOT17", dset_type |-> "mot-challenge",
      dset_mode |-> "train", feature_extractor |-> "resnet18",
      detector |-> "EB"],
     [data_root |-> "DETRAC", dset_type |-> "detrac",
      dset_mode |-> "test", feature_extractor |-> "reid",
      detector |-> "frcnn"]}

Args(c, spf) ==
    [data_root |-> c.data_root, dset_type |-> c.dset_type,
     dset_mode |-> c.dset_mode, feature_extractor |-> c.feature_extractor,
     detector |-> c.detector, samples_per_file |-> spf]

\* Exception classes: one caught by `except Exception`, one that is not.
ExcKinds == {"Exception", "KeyboardInterrupt"}

NoExc == [kind |-> "none", stage |-> "none", frame |-> 0]

\* Nothing is on its way out of main.
NoPending == [kind |-> "none", stage |-> "none"]

\* A path variable before its assignment.
NoPath == <<>>

\* An entry stored by an earlier run: it belongs to no frame of this run.
StaleEntry == [feats |-> <<>>, frame |-> 0]

\* What an earlier run over the same dataset left in the output folder: a
\* shard holding the key of the sequence's second frame, an empty shard of
\* a higher index, and the vocabulary.
StaleFolder(folder) ==
    LET k == MakeKey("MOT17-02", 2)
    IN  FileUpdate(
            FileUpdate(
                FileUpdate(EmptyDict, ShardFile(folder, 1),
                           Written(DictUpdate(EmptyDict, k, StaleEntry))),
                ShardFile(folder, 7), Written(EmptyDict)),
            VocFile(folder),
            Written(DictUpdate(EmptyDict, k, ShardName(1))))

\* Line 128: the output folder as main finds it, absent or empty (line 129
\* creates it when absent) or holding the files of an earlier run.
Folders(folder) == {EmptyDict, StaleFolder(folder)}

----------------------------------------------------------------------------
(* main, lines 85-199 *)

\* main is entered: nothing is assigned yet; the output folder is absent or
\* holds what an earlier run left.
Init ==
    /\ \E c \in Configs, spf \in SPFValues : args = Args(c, spf)
    /\ base_folder = NoPath
    /\ pc = "setup"
    /\ dset = <<>>
    /\ key = ""
    /\ patch_list = <<>>
    /\ feats_tensor = <<>>
    /\ feats_dict = EmptyDict
    /\ feats_vocabulary = EmptyDict
    /\ current_file_idx = 0
    /\ current_file = NoPath
    /\ disk \in Folders(BaseFolder(args))
    /\ writes = <<>>
    /\ exc = NoExc
    /\ pending = NoPending
    /\ printed = [shown |-> FALSE, key |-> ""]
    /\ calls = <<>>
    /\ run = [calls |-> 0, keys |-> <<>>, idx |-> 0]
    /\ write_failed = FALSE
    /\ box = <<0, 0, 0, 0>>
    /\ shape = <<FrameSide, FrameSide>>
    /\ patch = ZeroPatch
    /\ cpc = "idle"

\* Faulty variant of Handler: the loop goes on after an exception.
HandlerContinuesLoop(kind) == "fetch"

\* Where control goes when the loop body raises: `except Exception` (line
\* 187) for an Exception, straight to `finally` (line 191) for any other
\* BaseException.
Handler(kind) == IF kind = "Exception" THEN "except" ELSE "finally"

\* The loop body raises an exception of class `kind` at `stage`, while
\* working on frame `frame`.  An exception the except clause does not catch
\* stays on its way out of main.
Raise(kind, stage, frame) ==
    /\ exc' = [kind |-> kind, stage |-> stage, frame |-> frame]
    /\ pending' = IF kind = "Exception" THEN NoPending
                  ELSE [kind |-> kind, stage |-> "loop"]
    /\ pc' = Handler(kind)

\* Lines 88-140: the dataset and the extractor are built, the output folder
\* is named and created when absent (an existing folder is kept with what
\* it holds), and the locals of the loop are initialised.
Setup ==
    /\ pc = "setup"
    /\ base_folder' = BaseFolder(args)
    /\ current_file_idx' = 0
    /\ current_file' = ShardFile(BaseFolder(args), 0)
    /\ feats_dict' = EmptyDict
    /\ feats_vocabulary' = EmptyDict
    /\ key' = ""
    /\ pc' = "fetch"
    /\ UNCHANGED <<args, dset, patch_list, feats_tensor, disk, writes, exc,
                   pending, printed, calls, run, write_failed>>
    /\ UNCHANGED cropVars

\* Lines 88-129 raise before the try: the dataset cannot be read, the
\* dataset type is invalid (line 109), the folder cannot be created, or an
\* interrupt arrives.  main raises with nothing written.
SetupRaises ==
    /\ pc = "setup"
    /\ \E kind \in ExcKinds : pending' = [kind |-> kind, stage |-> "setup"]
    /\ pc' = "raised"
    /\ UNCHANGED <<args, base_folder, dset, key, patch_list, feats_tensor,
                   feats_dict, feats_vocabulary, current_file_idx,
                   current_file, disk, writes, exc, printed, calls, run,
                   write_failed>>
    /\ UNCHANGED cropVars

\* Lines 142-151: the iterator yields a sample; key and patch_list are set.
Fetch ==
    /\ pc = "fetch"
    /\ Len(dset) < MaxFrames
    /\ \E s \in Samples :
        /\ dset' = Append(dset, s)
        /\ key' = MakeKey(s.seq, s.frame_id)
    /\ patch_list' = <<>>
    /\ calls' = Append(calls, <<0, 0>>)
    /\ pc' = "crop"
    /\ UNCHANGED <<args, base_folder, feats_tensor, feats_dict,
                   feats_vocabulary, current_file_idx, current_file, disk,
                   writes, exc, pending, printed, run, write_failed>>
    /\ UNCHANGED cropVars

\* Line 142: the iterator is exhausted; the loop ends normally.
FetchStop ==
    /\ pc = "fetch"
    /\ pc' = "finally"
    /\ UNCHANGED <<args, base_folder, dset, key, patch_list, feats_tensor,
                   feats_dict, feats_vocabulary, current_file_idx,
                   current_file, disk, writes, exc, pending, printed,
                   calls, run, write_failed>>
    /\ UNCHANGED cropVars

\* Lines 142-148: producing or unpacking the next sample raises, before
\* line 150 assigns key.
FetchRaises ==
    /\ pc = "fetch"
    /\ Len(dset) < MaxFrames
    /\ \E kind \in ExcKinds : Raise(kind, "fetch", Len(dset) + 1)
    /\ UNCHANGED <<args, base_folder, dset, key, patch_list, feats_tensor,
                   feats_dict, feats_vocabulary, current_file_idx,
                   current_file, disk, writes, printed, calls, run,
                   write_failed>>
    /\ UNCHANGED cropVars

\* An interrupt arrives between line 150 and line 151: key is that of the
\* new frame, patch_list still that of the frame before.
FetchInterrupted ==
    /\ pc = "fetch"
    /\ Len(dset) < MaxFrames
    /\ \E s \in Samples :
        /\ dset' = Append(dset, s)
        /\ key' = MakeKey(s.seq, s.frame_id)
    /\ calls' = Append(calls, <<0, 0>>)
    /\ Raise("KeyboardInterrupt", "crop", Len(dset) + 1)
    /\ UNCHANGED <<args, base_folder, patch_list, feats_tensor, feats_dict,
                   feats_vocabulary, current_file_idx, current_file, disk,
                   writes, printed, run, write_failed>>
    /\ UNCHANGED cropVars

\* Lines 154-167
CropPatches ==
    /\ pc = "crop"
    /\ patch_list' = CropAll(dset[Len(dset)].detections, dset[Len(dset)].shape)
    /\ pc' = "extract"
    /\ UNCHANGED <<args, base_folder, dset, key, feats_tensor, feats_dict,
                   feats_vocabulary, current_file_idx, current_file, disk,
                   writes, exc, pending, printed, calls, run, write_failed>>
    /\ UNCHANGED cropVars

\* Lines 154-167 raise while the patch of detection n+1 is built (a malformed
\* detection, an interrupt), or an interrupt arrives after the last one: the
\* patches of the first n detections are in patch_list.
CropRaises ==
    /\ pc = "crop"
    /\ \E kind \in ExcKinds, n \in 0..Len(dset[Len(dset)].detections) :
        /\ n = Len(dset[Len(dset)].detections) => kind = "KeyboardInterrupt"
        /\ patch_list' = CropAll(SubSeq(dset[Len(dset)].detections, 1, n),
                                 dset[Len(dset)].shape)
        /\ Raise(kind, "crop", Len(dset))
    /\ UNCHANGED <<args, base_folder, dset, key, feats_tensor, feats_dict,
                   feats_vocabulary, current_file_idx, current_file, disk,
                   writes, printed, calls, run, write_failed>>
    /\ UNCHANGED cropVars

\* Lines 169-171
Extract ==
    /\ pc = "extract"
    /\ feats_tensor' = FeatureExtractor(feature_extractor, patch_list)
    /\ calls' = [calls EXCEPT ![Len(dset)] =
                    <<@[1] + 1,
                      @[2] + (IF InvokesModel(patch_list) THEN 1 ELSE 0)>>]
    /\ pc' = "record"
    /\ UNCHANGED <<args, base_folder, dset, key, patch_list, feats_dict,
                   feats_vocabulary, current_file_idx, current_file, disk,
                   writes, exc, pending, printed, run, write_failed>>
    /\ UNCHANGED cropVars

\* Lines 169-171 raise inside the call: in the preprocessing, before the
\* model runs, or in the model.  An empty patch list returns at line 39/75
\* and can only be interrupted.
ExtractRaises ==
    /\ pc = "extract"
    /\ \E kind \in ExcKinds, invoked \in {0, 1} :
        /\ ~InvokesModel(patch_list) => (kind # "Exception" /\ invoked = 0)
        /\ Raise(kind, "extract", Len(dset))
        /\ calls' = [calls EXCEPT ![Len(dset)] = <<@[1] + 1, @[2] + invoked>>]
    /\ UNCHANGED <<args, base_folder, dset, key, patch_list, feats_tensor,
                   feats_dict, feats_vocabulary, current_file_idx,
                   current_file, disk, writes, printed, run, write_failed>>
    /\ UNCHANGED cropVars

\* The entry stored for the current frame: the feature batch, tagged with
\* the position of its frame in the dataset.
Entry == [feats |-> feats_tensor, frame |-> Len(dset)]

RunAfterRecord ==
    IF DOMAIN feats_dict = {}
    THEN [calls |-> 1, keys |-> <<key>>, idx |-> current_file_idx]
    ELSE [run EXCEPT !.calls = @ + 1, !.keys = Append(@, key)]

\* Lines 175-176: record(key, feats_tensor)
Record ==
    /\ pc = "record"
    /\ feats_dict' = DictUpdate(feats_dict, key, Entry)
    /\ feats_vocabulary' =
           DictUpdate(feats_vocabulary, key, VocValue(current_file))
    /\ run' = RunAfterRecord
    /\ pc' = "rotate"
    /\ UNCHANGED <<args, base_folder, dset, key, patch_list, feats_tensor,
                   current_file_idx, current_file, disk, writes, exc,
                   pending, printed, calls, write_failed>>
    /\ UNCHANGED cropVars

\* An interrupt arrives before line 175 (feats_tensor is assigned, nothing
\* is recorded) or between line 175 and line 176.
RecordInterrupted ==
    /\ pc = "record"
    /\ \/ /\ Raise("KeyboardInterrupt", "assign", Len(dset))
          /\ UNCHANGED <<feats_dict, run>>
       \/ /\ feats_dict' = DictUpdate(feats_dict, key, Entry)
          /\ run' = RunAfterRecord
          /\ Raise("KeyboardInterrupt", "record", Len(dset))
    /\ UNCHANGED <<args, base_folder, dset, key, patch_list, feats_tensor,
                   feats_vocabulary, current_file_idx, current_file, disk,
                   writes, printed, calls, write_failed>>
    /\ UNCHANGED cropVars

\* Lines 178-186: maybe_rotate()
Rotate ==
    /\ pc = "rotate"
    /\ IF RotateDue(feats_dict, samples_per_file)
       THEN /\ disk' = FileUpdate(disk, current_file, Written(feats_dict))
            /\ writes' = Append(writes, current_file)
            /\ current_file_idx' = NextIdx(current_file_idx)
            /\ current_file' = ShardFile(base_folder, NextIdx(current_file_idx))
            /\ feats_dict' = EmptyDict
       ELSE UNCHANGED <<disk, writes, current_file_idx, current_file,
                        feats_dict>>
    /\ pc' = "fetch"
    /\ UNCHANGED <<args, base_folder, dset, key, patch_list, feats_tensor,
                   feats_vocabulary, exc, pending, printed, calls, run,
                   write_failed>>
    /\ UNCHANGED cropVars

\* An interrupt arrives inside lines 178-186: at line 178 or 180 before
\* anything is written, at line 181 after the shard is written, at line 182
\* after the index is advanced, or at line 186 after current_file is renamed
\* and before the buffer is reset.
RotateInterrupted ==
    /\ pc = "rotate"
    /\ \/ UNCHANGED <<disk, writes, current_file_idx, current_file>>
       \/ /\ RotateDue(feats_dict, samples_per_file)
          /\ disk' = FileUpdate(disk, current_file, Written(feats_dict))
          /\ writes' = Append(writes, current_file)
          /\ \/ UNCHANGED <<current_file_idx, current_file>>
             \/ /\ current_file_idx' = NextIdx(current_file_idx)
                /\ UNCHANGED current_file
             \/ /\ current_file_idx' = NextIdx(current_file_idx)
                /\ current_file' =
                       ShardFile(base_folder, NextIdx(current_file_idx))
    /\ Raise("KeyboardInterrupt", "rotate", Len(dset))
    /\ UNCHANGED <<args, base_folder, dset, key, patch_list, feats_tensor,
                   feats_dict, feats_vocabulary, printed, calls, run,
                   write_failed>>
    /\ UNCHANGED cropVars

\* A write that raises leaves the file as it was (it could not be opened)
\* or truncated (it was opened for writing).
FailedWrite(path) ==
    \/ disk' = disk
    \/ disk' = FileUpdate(disk, path, Corrupt)

\* Line 180 raises: the write fails or is interrupted.
RotateWriteRaises ==
    /\ pc = "rotate"
    /\ RotateDue(feats_dict, samples_per_file)
    /\ FailedWrite(current_file)
    /\ write_failed' = TRUE
    /\ \E kind \in ExcKinds : Raise(kind, "rotate", Len(dset))
    /\ UNCHANGED <<args, base_folder, dset, key, patch_list, feats_tensor,
                   feats_dict, feats_vocabulary, current_file_idx,
                   current_file, writes, printed, calls, run>>
    /\ UNCHANGED cropVars

\* Faulty variant of Diagnostic: the key is not printed.
DiagnosticBlank(k) == ""

\* The key line 190 prints.
Diagnostic(k) == k

\* Lines 187-190
Except ==
    /\ pc = "except"
    /\ printed' = [shown |-> TRUE, key |-> Diagnostic(key)]
    /\ pc' = "finally"
    /\ UNCHANGED <<args, base_folder, dset, key, patch_list, feats_tensor,
                   feats_dict, feats_vocabulary, current_file_idx,
                   current_file, disk, writes, exc, pending, calls, run,
                   write_failed>>
    /\ UNCHANGED cropVars

\* Lines 188-190 raise: a print fails (stdout closed or broken) or is
\* interrupted, before line 190 has printed the key or after it has.  The
\* new exception leaves the handler; finally still runs.
ExceptRaises ==
    /\ pc = "except"
    /\ \E kind \in ExcKinds, shown \in BOOLEAN :
        /\ printed' = [shown |-> shown,
                       key |-> IF shown THEN Diagnostic(key) ELSE ""]
        /\ pending' = [kind |-> kind, stage |-> "except"]
    /\ pc' = "finally"
    /\ UNCHANGED <<args, base_folder, dset, key, patch_list, feats_tensor,
                   feats_dict, feats_vocabulary, current_file_idx,
                   current_file, disk, writes, exc, calls, run,
                   write_failed>>
    /\ UNCHANGED cropVars

\* Line 192
FinalizeShard ==
    /\ pc = "finally"
    /\ disk' = FileUpdate(disk, current_file, Written(feats_dict))
    /\ writes' = Append(writes, current_file)
    /\ pc' = "voc"
    /\ UNCHANGED <<args, base_folder, dset, key, patch_list, feats_tensor,
                   feats_dict, feats_vocabulary, current_file_idx,
                   current_file, exc, pending, printed, calls, run,
                   write_failed>>
    /\ UNCHANGED cropVars

\* Line 192 raises: the write fails or is interrupted; the exception leaves
\* main.
FinalizeShardRaises ==
    /\ pc = "finally"
    /\ FailedWrite(current_file)
    /\ write_failed' = TRUE
    /\ \E kind \in ExcKinds : pending' = [kind |-> kind, stage |-> "finally"]
    /\ pc' = "raised"
    /\ UNCHANGED <<args, base_folder, dset, key, patch_list, feats_tensor,
                   feats_dict, feats_vocabulary, current_file_idx,
                   current_file, writes, exc, printed, calls, run>>
    /\ UNCHANGED cropVars

\* An interrupt arrives at line 192 before anything is written.
FinalizeShardInterrupted ==
    /\ pc = "finally"
    /\ pending' = [kind |-> "KeyboardInterrupt", stage |-> "finally"]
    /\ pc' = "raised"
    /\ UNCHANGED <<args, base_folder, dset, key, patch_list, feats_tensor,
                   feats_dict, feats_vocabulary, current_file_idx,
                   current_file, disk, writes, exc, printed, calls, run,
                   write_failed>>
    /\ UNCHANGED cropVars

\* How main ends once `finally` is through: an exception still on its way
\* out is re-raised.
Outcome(p) == IF p.kind = "none" THEN "returned" ELSE "raised"

\* Lines 194-199
FinalizeVoc ==
    /\ pc = "voc"
    /\ disk' = FileUpdate(disk, VocFile(base_folder), Written(feats_vocabulary))
    /\ writes' = Append(writes, VocFile(base_folder))
    /\ pc' = Outcome(pending)
    /\ UNCHANGED <<args, base_folder, dset, key, patch_list, feats_tensor,
                   feats_dict, feats_vocabulary, current_file_idx,
                   current_file, exc, pending, printed, calls, run,
                   write_failed>>
    /\ UNCHANGED cropVars

\* Lines 198-199 raise: the write fails or is interrupted.
FinalizeVocRaises ==
    /\ pc = "voc"
    /\ FailedWrite(VocFile(base_folder))
    /\ write_failed' = TRUE
    /\ \E kind \in ExcKinds : pending' = [kind |-> kind, stage |-> "finally"]
    /\ pc' = "raised"
    /\ UNCHANGED <<args, base_folder, dset, key, patch_list, feats_tensor,
                   feats_dict, feats_vocabulary, current_file_idx,
                   current_file, writes, exc, printed, calls, run>>
    /\ UNCHANGED cropVars

\* An interrupt arrives at lines 194-198 before the vocabulary is written,
\* or at the end of the with block after it is written.
FinalizeVocInterrupted ==
    /\ pc = "voc"
    /\ \/ UNCHANGED <<disk, writes>>
       \/ /\ disk' = FileUpdate(disk, VocFile(base_folder),
                                Written(feats_vocabulary))
          /\ writes' = Append(writes, VocFile(base_folder))
    /\ pending' = [kind |-> "KeyboardInterrupt", stage |-> "finally"]
    /\ pc' = "raised"
    /\ UNCHANGED <<args, base_folder, dset, key, patch_list, feats_tensor,
                   feats_dict, feats_vocabulary, current_file_idx,
                   current_file, exc, printed, calls, run, write_failed>>
    /\ UNCHANGED cropVars

Next ==
    \/ Setup
    \/ SetupRaises
    \/ Fetch
    \/ FetchStop
    \/ FetchRaises
    \/ FetchInterrupted
    \/ CropPatches
    \/ CropRaises
    \/ Extract
    \/ ExtractRaises
    \/ Record
    \/ RecordInterrupted
    \/ Rotate
    \/ RotateInterrupted
    \/ RotateWriteRaises
    \/ Except
    \/ ExceptRaises
    \/ FinalizeShard
    \/ FinalizeShardRaises
    \/ FinalizeShardInterrupted
    \/ FinalizeVoc
    \/ FinalizeVocRaises
    \/ FinalizeVocInterrupted

Spec == Init /\ [][Next]_vars

\* main is one sequential thread: a step that can be taken is taken.
FairSpec == Spec /\ WF_vars(Next)

Done == pc \in {"returned", "raised"}

----------------------------------------------------------------------------
(* The patch extractor on its own: one detection box against one frame *)

Coords == (0 - MaxCoord)..MaxCoord

CropInit ==
    /\ args = Args(CHOOSE c \in Configs : c.dset_type = "mot-challenge", 1)
    /\ base_folder = BaseFolder(args)
    /\ pc = "idle"
    /\ dset = <<>>
    /\ key = ""
    /\ patch_list = <<>>
    /\ feats_tensor = <<>>
    /\ feats_dict = EmptyDict
    /\ feats_vocabulary = EmptyDict
    /\ current_file_idx = 0
    /\ current_file = ShardFile(base_folder, 0)
    /\ disk = EmptyDict
    /\ writes = <<>>
    /\ exc = NoExc
    /\ pending = NoPending
    /\ printed = [shown |-> FALSE, key |-> ""]
    /\ calls = <<>>
    /\ run = [calls |-> 0, keys |-> <<>>, idx |-> 0]
    /\ write_failed = FALSE
    /\ box \in [1..4 -> Coords]
    /\ shape = <<FrameSide, FrameSide>>
    /\ patch = ZeroPatch
    /\ cpc = "start"

\* Lines 155-167 for the detection `box`.
CropStep ==
    /\ cpc = "start"
    /\ patch' = Crop(box, shape)
    /\ cpc' = "done"
    /\ UNCHANGED <<box, shape>>
    /\ UNCHANGED mainVars

CropNext == CropStep

CropSpec == CropInit /\ [][CropNext]_vars

----------------------------------------------------------------------------
(* What the run left on disk *)

KeyOf(j) == MakeKey(dset[j].seq, dset[j].frame_id)

Folder == base_folder

OnDisk(path) == path \in DOMAIN disk /\ disk[path].ok

\* The files this run has written; the folder may hold others, left by an
\* earlier run.
WrittenPaths == {writes[i] : i \in 1..Len(writes)}

\* The vocabulary file is on disk and is the one this run wrote.
VocOnDisk ==
    /\ OnDisk(VocFile(base_folder))
    /\ VocFile(base_folder) \in WrittenPaths

PersistedVoc == disk[VocFile(base_folder)].data

\* Every shard file in the output folder.
FolderShards == {p \in DOMAIN disk : p # VocFile(base_folder)}

\* The shard files this run has written.
ShardPaths == FolderShards \cap WrittenPaths

\* The shard file `name` was written by this run, is readable and holds
\* key k.
ShardHolds(name, k) ==
    /\ Join(Folder, name) \in WrittenPaths
    /\ OnDisk(Join(Folder, name))
    /\ k \in DOMAIN disk[Join(Folder, name)].data

KeysDistinct(keys) ==
    \A i, j \in 1..Len(keys) : i # j => keys[i] # keys[j]

DsetKeysDistinct ==
    \A i, j \in 1..Len(dset) : i # j => KeyOf(i) # KeyOf(j)

----------------------------------------------------------------------------
\* C1: once main has ended having written the vocabulary file, every key of
\* the persisted vocabulary maps to the basename of a shard file
\* ap_vec_{i}.apv that is on disk and whose persisted mapping holds that
\* key, whatever the samples and samples_per_file, recurring keys included.
C1_VocabularyPointsIntoShards ==
    (Done /\ VocOnDisk) =>
        \A k \in DOMAIN PersistedVoc :
            /\ \E i \in 0..current_file_idx : PersistedVoc[k] = ShardName(i)
            /\ ShardHolds(PersistedVoc[k], k)

\* A run ended by a caught exception, after a rotation, in which a key
\* recurred and moved to a later shard.
C1_Witness ==
    /\ pc = "returned"
    /\ ~write_failed
    /\ exc.kind = "Exception"
    /\ current_file_idx >= 1
    /\ \E i, j \in 1..Len(dset) :
        /\ i < j
        /\ KeyOf(i) = KeyOf(j)
        /\ KeyOf(j) \in DOMAIN PersistedVoc
        /\ PersistedVoc[KeyOf(j)] = ShardName(1)
        /\ ShardHolds(ShardName(0), KeyOf(i))

----------------------------------------------------------------------------
\* The state maybe_rotate leaves when it closes the shard the run started in.
RunRotated ==
    /\ DOMAIN feats_dict = {}
    /\ current_file_idx = run.idx + 1
    /\ ShardFile(base_folder, run.idx) \in ShardPaths
    /\ OnDisk(ShardFile(base_folder, run.idx))
    /\ DOMAIN disk[ShardFile(base_folder, run.idx)].data
           = {run.keys[i] : i \in 1..Len(run.keys)}
    /\ \A i \in 1..Len(run.keys) :
        /\ run.keys[i] \in DOMAIN feats_vocabulary
        /\ feats_vocabulary[run.keys[i]] = ShardName(run.idx)

\* C2 as stated: starting from an empty buffer with shard index i, after
\* exactly samples_per_file calls to record, each followed by maybe_rotate,
\* the buffer has been persisted to ap_vec_{i}.apv, the buffer is empty,
\* the index is i+1 and the vocabulary maps the recorded keys to
\* ap_vec_{i}.apv.
C2_RotationAfterSPFCalls ==
    (pc = "fetch" /\ samples_per_file >= 1 /\ run.calls = samples_per_file)
        => RunRotated

\* C2 amended: the same, when the samples_per_file keys recorded are
\* pairwise distinct.
C2_RotationAfterSPFDistinctKeys ==
    (/\ pc = "fetch"
     /\ samples_per_file >= 1
     /\ run.calls = samples_per_file
     /\ KeysDistinct(run.keys))
        => RunRotated

\* A shard closed after two records of distinct keys.
C2_Witness ==
    /\ pc = "fetch"
    /\ samples_per_file = 2
    /\ run.calls = 2
    /\ KeysDistinct(run.keys)
    /\ RunRotated

----------------------------------------------------------------------------
ShardData(i) == disk[ShardFile(base_folder, i)].data

\* C3: without failure, N frames with pairwise distinct keys and
\* samples_per_file = S >= 1 give exactly the shard files ap_vec_0.apv ..
\* ap_vec_{N div S}.apv; frame k (0-based) is stored in ap_vec_{k div S}.apv
\* and in no other shard; every shard but the last holds S entries and the
\* last N mod S; the one vocabulary file maps each key to its shard.
C3_EndToEnd ==
    (/\ pc = "returned"
     /\ exc = NoExc
     /\ ~write_failed
     /\ samples_per_file >= 1
     /\ DsetKeysDistinct) =>
        LET N == Len(dset)
            S == samples_per_file
            last == N \div S
        IN  /\ ShardPaths = {ShardFile(base_folder, i) : i \in 0..last}
            /\ \A p \in ShardPaths : disk[p].ok
            /\ \A k \in 1..N : \A i \in 0..last :
                (KeyOf(k) \in DOMAIN ShardData(i)) <=> (i = (k - 1) \div S)
            /\ \A k \in 1..N :
                ShardData((k - 1) \div S)[KeyOf(k)].frame = k
            /\ \A i \in 0..(last - 1) : Cardinality(DOMAIN ShardData(i)) = S
            /\ Cardinality(DOMAIN ShardData(last)) = N % S
            /\ VocOnDisk
            /\ DOMAIN PersistedVoc = {KeyOf(k) : k \in 1..N}
            /\ \A k \in 1..N : PersistedVoc[KeyOf(k)] = ShardName((k - 1) \div S)
            /\ Len(writes) = last + 2

\* Three frames with distinct keys, two samples per file, no failure, in a
\* folder an earlier run had left: its second shard is written anew, its
\* eighth is still there.
C3_Witness ==
    /\ pc = "returned"
    /\ exc = NoExc
    /\ ~write_failed
    /\ samples_per_file = 2
    /\ Len(dset) = 3
    /\ DsetKeysDistinct
    /\ Cardinality(DOMAIN ShardData(0)) = 2
    /\ Cardinality(DOMAIN ShardData(1)) = 1
    /\ ShardFile(base_folder, 7) \in FolderShards

----------------------------------------------------------------------------
\* Frame exc.frame had been recorded in the buffer when the exception rose.
FailingFrameRecorded == exc.stage \in {"record", "rotate"}

\* Key k has an entry in the persisted vocabulary or in some shard this
\* run wrote.
HasSomeEntry(k) ==
    \/ k \in DOMAIN PersistedVoc
    \/ \E p \in ShardPaths : k \in DOMAIN disk[p].data

\* C4: when processing raised on frame k and the run then wrote its output,
\* the vocabulary and the shards the run persisted hold an entry for every frame before
\* k, hold an entry under frame k's key only if that key was recorded before
\* the exception rose, and hold nothing of a frame after k.
C4_FailureMidRun ==
    (Done /\ VocOnDisk /\ exc.kind # "none") =>
        LET k == exc.frame
        IN  /\ \A j \in 1..(k - 1) :
                /\ KeyOf(j) \in DOMAIN PersistedVoc
                /\ ShardHolds(PersistedVoc[KeyOf(j)], KeyOf(j))
            /\ Len(dset) <= k
            /\ \A p \in ShardPaths : \A x \in DOMAIN disk[p].data :
                \/ disk[p].data[x].frame < k
                \/ disk[p].data[x].frame = k /\ FailingFrameRecorded
            /\ (/\ Len(dset) = k
                /\ ~FailingFrameRecorded
                /\ \A j \in 1..(k - 1) : KeyOf(j) # KeyOf(k))
                   => ~HasSomeEntry(KeyOf(k))

\* Feature extraction raised on the second frame, whose key was new, while
\* the first frame was still in the buffer; a shard of an earlier run, which
\* this run did not write, holds that key.
C4_Witness ==
    /\ pc = "returned"
    /\ exc.kind = "Exception"
    /\ exc.stage = "extract"
    /\ exc.frame = 2
    /\ samples_per_file = 2
    /\ KeyOf(1) # KeyOf(2)
    /\ ShardHolds(ShardName(0), KeyOf(1))
    /\ ~HasSomeEntry(KeyOf(2))
    /\ OnDisk(ShardFile(base_folder, 1))
    /\ KeyOf(2) \in DOMAIN ShardData(1)

----------------------------------------------------------------------------
\* Every readable shard file this run wrote holds at most samples_per_file
\* entries.
AllShardsCapped ==
    \A p \in ShardPaths :
        disk[p].ok => Cardinality(DOMAIN disk[p].data) <= samples_per_file

\* C7 as stated, on the runs that no exception interrupts: every shard file
\* written holds at most samples_per_file entries, for every configured
\* samples_per_file.
C7_ShardsCapped == exc = NoExc => AllShardsCapped

\* C7 amended: every shard file written, by rotation or by finalize, holds
\* at most samples_per_file entries when samples_per_file >= 1.
C7_ShardsCappedPositiveSPF == samples_per_file >= 1 => AllShardsCapped

\* A full shard written by rotation and a partial one written by finalize.
C7_Witness ==
    /\ Done
    /\ samples_per_file = 2
    /\ ShardFile(base_folder, 0) \in ShardPaths
    /\ OnDisk(ShardFile(base_folder, 0))
    /\ Cardinality(DOMAIN ShardData(0)) = 2
    /\ ShardFile(base_folder, 1) \in ShardPaths
    /\ OnDisk(ShardFile(base_folder, 1))
    /\ Cardinality(DOMAIN ShardData(1)) = 1

----------------------------------------------------------------------------
\* Entry e holds one vector per detection of its frame, in detection order,
\* from one extractor call that ran the model only for a non-empty frame.
EntryAligned(e) ==
    LET dets == dset[e.frame].detections
    IN  /\ Len(e.feats) = Len(dets)
        /\ \A j \in 1..Len(dets) :
            e.feats[j].of.src = Crop(dets[j], dset[e.frame].shape)
        /\ calls[e.frame] = <<1, IF Len(dets) = 0 THEN 0 ELSE 1>>

\* C9: every feature batch this run recorded, in the buffer or in a shard it
\* wrote, has one
\* vector per detection of its frame in detection order, degenerate boxes
\* included; the extractor was called once for that frame, and for a frame
\* without detections the batch is empty and the model was not invoked.
C9_BatchAlignedWithDetections ==
    /\ \A x \in DOMAIN feats_dict : EntryAligned(feats_dict[x])
    /\ \A p \in ShardPaths : \A x \in DOMAIN disk[p].data :
           EntryAligned(disk[p].data[x])

\* A shard holding a frame without detections and a frame whose first box
\* is degenerate.
C9_Witness ==
    \E p \in ShardPaths : \E x, y \in DOMAIN disk[p].data :
        /\ disk[p].data[x].feats = <<>>
        /\ calls[disk[p].data[x].frame] = <<1, 0>>
        /\ Len(disk[p].data[y].feats) = 2
        /\ disk[p].data[y].feats[1].of.src = ZeroPatch
        /\ disk[p].data[y].feats[2].of.src.kind = "slice"

----------------------------------------------------------------------------
\* The writes so far are ap_vec_0.apv, ap_vec_1.apv, ... in increasing
\* order, each once; once main is through, the vocabulary has been written
\* exactly once, after the last shard write, as the last write of the run,
\* and it is not written before.
WritesInOrder ==
    LET n == Len(writes)
        m == IF Done THEN n - 1 ELSE n
    IN  /\ \A i \in 1..m : writes[i] = ShardFile(base_folder, i - 1)
        /\ Done => (n >= 2 /\ writes[n] = VocFile(base_folder))
        /\ pc = "voc" => (n >= 1 /\ writes[n] = current_file)

\* C10: in any run whose file writes succeed (none fails, and a run that
\* has ended has written its vocabulary), whether the loop ended normally or
\* by a caught exception, the writes are the shard files ap_vec_0.apv,
\* ap_vec_1.apv, ... in increasing index order, each once, followed by
\* exactly one write of the vocabulary, the last write of the run; the
\* vocabulary is not written before the final shard write.
C10_WriteOrder ==
    (/\ ~write_failed
     /\ exc.kind \in {"none", "Exception"}
     /\ Done => VocOnDisk) => WritesInOrder

\* A run ended by a caught exception after one rotation.
C10_Witness ==
    /\ pc = "returned"
    /\ ~write_failed
    /\ exc.kind = "Exception"
    /\ Len(writes) = 3

----------------------------------------------------------------------------
\* Control has been at line 192, the first statement of finalize.
FinalizeReached == pc \in {"voc", "returned", "raised"}

\* Finalize persisted the buffer to the current shard file and then wrote
\* the vocabulary file, as the last two writes of the run.
FinalizePersisted ==
    /\ OnDisk(current_file)
    /\ disk[current_file].data = feats_dict
    /\ VocOnDisk
    /\ PersistedVoc = feats_vocabulary
    /\ Len(writes) >= 2
    /\ writes[Len(writes) - 1] = current_file
    /\ writes[Len(writes)] = VocFile(base_folder)

\* Both writes of finalize went through.
FinalizeWritesOk == pc \in {"returned", "raised"} /\ VocOnDisk

\* Neither the except clause nor finalize raised or was interrupted.
HandlersRanClean == pending.stage \notin {"except", "finally"}

\* C5 as stated, for runs in which the handler and finalize themselves do
\* not fail: after any exception raised inside the driver loop, main ends
\* having persisted the buffer and the vocabulary and returns normally, the
\* exception not propagated.
C5_AnyExceptionReturnsNormally ==
    (exc.kind # "none" /\ Done /\ HandlersRanClean) =>
        (pc = "returned" /\ FinalizePersisted)

\* C5 amended: after an exception raised inside the driver loop no further
\* sample is processed and finalize is eventually executed; when its two
\* writes succeed the buffer is persisted to the current shard file and
\* then the vocabulary file is written; main returns normally exactly when
\* the exception is an instance of Exception and nothing raises in the
\* except clause or in finalize, and otherwise an exception leaves main.
C5_CaughtExceptionReturnsNormally ==
    /\ [][exc.kind # "none" => (dset' = dset /\ pc' # "fetch" /\ exc' = exc)]_vars
    /\ [](exc.kind # "none" => <>FinalizeReached)
    /\ []((exc.kind # "none" /\ FinalizeWritesOk) => FinalizePersisted)
    /\ []((exc.kind # "none" /\ Done) =>
            /\ pc = "returned" <=> (exc.kind = "Exception" /\ HandlersRanClean)
            /\ pc = "returned" => FinalizePersisted)

\* A caught failure of the shard write of maybe_rotate, after which
\* finalize wrote the same shard file and the vocabulary, and main returned.
C5_Witness ==
    /\ pc = "returned"
    /\ exc.kind = "Exception"
    /\ exc.stage = "rotate"
    /\ exc.frame = 2
    /\ FinalizePersisted
    /\ DOMAIN feats_dict # {}

----------------------------------------------------------------------------
\* The key of the last frame recorded before the loop was interrupted by a
\* caught exception, "" when none was.
LastRecordedKey ==
    LET n == IF exc.stage = "rotate" THEN exc.frame ELSE exc.frame - 1
    IN  IF n = 0 THEN "" ELSE KeyOf(n)

\* The key line 150 built last: that of the last frame yielded and unpacked,
\* "" when there is none.
LastYieldedKey == IF Len(dset) = 0 THEN "" ELSE KeyOf(Len(dset))

\* C6 as stated: the diagnostic names the key of the last frame whose
\* feature batch was recorded before the failure, "" if there is none.
C6_DiagnosticNamesLastRecordedKey ==
    printed.shown => printed.key = LastRecordedKey

\* C6 amended: the diagnostic names the key built last at line 150 ("" if
\* none): the frame being processed when cropping, feature
\* extraction or the shard write raised, recorded or not, and the previous
\* frame when fetching the next sample raised.
C6_DiagnosticNamesCurrentKey ==
    printed.shown => printed.key = LastYieldedKey

\* Feature extraction raised on a second frame with a new key: the
\* diagnostic names that frame, which was not recorded.
C6_Witness ==
    /\ printed.shown
    /\ exc.stage = "extract"
    /\ exc.frame = 2
    /\ KeyOf(1) # KeyOf(2)
    /\ printed.key = KeyOf(2)
    /\ KeyOf(2) \notin DOMAIN feats_vocabulary

----------------------------------------------------------------------------
\* Extent of the box along an axis of n pixels once the box is clamped to
\* the frame: what of [RealMin, RealMin + RealExtent) lies inside [0, n).
ClampedExtent(n, origin, extent) ==
    Min(RealMin(origin) + RealExtent(origin, extent), n)
        - Min(RealMin(origin), n)

\* C8: a box whose height or width after clamping to the frame bounds is
\* <= 1 yields the all-zero (256,128,3) patch; the patch appended is never
\* a slice of the frame with a height or width of zero or one pixel.
C8_DegenerateBoxesZeroed ==
    cpc = "done" =>
        /\ (\/ ClampedExtent(shape[1], box[2], box[4]) <= 1
            \/ ClampedExtent(shape[2], box[1], box[3]) <= 1)
               => patch = ZeroPatch
        /\ patch.kind = "slice" => (patch.shape[1] > 1 /\ patch.shape[2] > 1)

====
